---- MODULE Spec2Model ----
(***************************************************************************)
(* A model of sqlalchemy_jsonbase/jb.py: view-spec parsing and resolution  *)
(* (ViewSchema), relationship-gated serialization (to_json), field         *)
(* synthesis (_make_field and the per-kind converters), schema building    *)
(* (JsonMetaMixin), loading (update / from_json) and JSON-schema emission  *)
(* (json_schema, _from_nested_schema, fix_refs).                           *)
(*                                                                         *)
(* Each family of operations has its own specification over the same       *)
(* variables; a specification leaves the other families' variables alone.  *)
(***************************************************************************)
EXTENDS Integers, Sequences, FiniteSets, TLC

VARIABLES
    vschema,    \* ViewSchema.context['_exclude_rels']: the target schema, or NoSchema
    given,      \* the mapping handed to ViewSchema.load, as it was at the call
    original,   \* the same mapping object after the call (its lists are shared)
    loaded,     \* the result of the load: {only, exclude, context}
    reloaded,   \* the result of resolving the first result a second time
    graph,      \* the models' relationships: model -> relationship name -> target model
    frame,      \* the schema instance being dumped by to_json, and how it was reached
    declared,   \* the declared attribute handed to _make_field
    entry,      \* its entry of __schema_args__
    made,       \* what _make_field did: the field, None or an exception
    classes,    \* the model classes defined so far
    schemas,    \* the schema classes created so far, each its _declared_fields
    built,      \* how the last class statement ended
    ufields,    \* the declared fields of the schema of the instance's model
    before,     \* the instance's attributes before the last call
    obj,        \* the instance's attributes
    payload,    \* the mapping given to the last call
    outcome,    \* what the last call gave its caller
    jroot,      \* the model json_schema was called on
    jparams,    \* the only / exclude / context it instantiated the schema with
    jdoc,       \* the JSON schema document
    juri,       \* the uri_prefix of the last fix_refs pass
    jprevious,  \* the document and uri_prefix before the last fix_refs pass
    jstage,     \* nothing yet, returned by json_schema, or fixed again
    asked,      \* the mapping given to ViewSchema().load
    parsed      \* what the load returned

viewVars == <<vschema, given, original, loaded, reloaded>>
dumpVars == <<graph, frame>>
fieldVars == <<declared, entry, made>>
buildVars == <<classes, schemas, built>>
updateVars == <<ufields, before, obj, payload, outcome>>
jsonVars == <<jroot, jparams, jdoc, juri, jprevious, jstage>>
parseVars == <<asked, parsed>>

vars == <<vschema, given, original, loaded, reloaded, graph, frame, declared, entry, made,
          classes, schemas, built, ufields, before, obj, payload, outcome,
          jroot, jparams, jdoc, juri, jprevious, jstage, asked, parsed>>

\* What the operations of one family leave alone.
notView == <<dumpVars, fieldVars, buildVars, updateVars, jsonVars, parseVars>>
notDump == <<viewVars, fieldVars, buildVars, updateVars, jsonVars, parseVars>>
notField == <<viewVars, dumpVars, buildVars, updateVars, jsonVars, parseVars>>
notBuild == <<viewVars, dumpVars, fieldVars, updateVars, jsonVars, parseVars>>
notUpdate == <<viewVars, dumpVars, fieldVars, buildVars, jsonVars, parseVars>>
notJson == <<viewVars, dumpVars, fieldVars, buildVars, updateVars, parseVars>>
notParse == <<viewVars, dumpVars, fieldVars, buildVars, updateVars, jsonVars>>

----------------------------------------------------------------------------
(* Bounds                                                                  *)

\* Longest only / exclude / follow list of a request.
MaxListLen == 2

\* Most foreign keys on one column.
MaxForeignKeys == 2

----------------------------------------------------------------------------
(* Python values                                                           *)

\* A value that is not there: None, a missing key, no result yet.
None == "None"

\* `x in s` for a list s.
Contains(s, x) == \E i \in 1..Len(s) : s[i] = x

ToSet(s) == {s[i] : i \in 1..Len(s)}

\* The lists without repeated names, of length at most n, over the names S.
ListsOver(S, n) ==
    {s \in UNION {[1..k -> S] : k \in 0..n} :
        \A i, j \in 1..Len(s) : i # j => s[i] # s[j]}

\* An optional list-valued key of a mapping: not given, or given with a list.
Absent == [given |-> FALSE, items |-> <<>>]
Given(s) == [given |-> TRUE, items |-> s]

----------------------------------------------------------------------------
(* Schemas and their fields, as far as view resolution reads them          *)

\* The attribute names of the modelled schemas, in declaration order.
DeclOrder == <<"title", "posts", "author">>
FieldNames == ToSet(DeclOrder)

\* A field: is it an mm.fields.Nested, and its related_class attribute
\* (set by _relationship_to_field only).
ValueField == [nested |-> FALSE, related |-> None]
PlainNested == [nested |-> TRUE, related |-> None]
RelField(target) == [nested |-> TRUE, related |-> target]

\* isinstance(field, mm.fields.Nested) and hasattr(field, 'related_class')
IsRelationship(field) == field.nested /\ field.related # None

\* A schema class: its _declared_fields, a mapping from name to field.
NoFields == [n \in {} |-> ValueField]

\* The value of context.get('_exclude_rels', None).
NoSchema == [present |-> FALSE, fields |-> NoFields]
ExcludeRels(fields) == [present |-> TRUE, fields |-> fields]

----------------------------------------------------------------------------
(* View requests                                                           *)

\* A view request is a mapping with the optional keys _only, _exclude and
\* _follow and any number of other keys, each naming a field and holding
\* the nested request for it.
NoExtra == [n \in {} |-> None]
EmptyRequest == [only |-> Absent, exclude |-> Absent, follow |-> Absent, extra |-> NoExtra]

\* The keys of a request mapping: `key in original` tests these.
Keys(req) ==
    (IF req.only.given THEN {"_only"} ELSE {})
    \cup (IF req.exclude.given THEN {"_exclude"} ELSE {})
    \cup (IF req.follow.given THEN {"_follow"} ELSE {})
    \cup DOMAIN req.extra

\* original.get(key, []) for the three list-valued keys.
GetList(val) == IF val.given THEN val.items ELSE <<>>

\* `key not in exclude` (line 174)
NeverExcludedMutant(exclude, key) == FALSE
AlreadyExcluded(exclude, key) == Contains(exclude, key)

\* `key in only or key in follow or key in original` (line 175)
OptedInMutant(req, key) ==
    Contains(GetList(req.only), key) \/ Contains(GetList(req.follow), key)
OptedIn(req, key) ==
    \/ Contains(GetList(req.only), key)
    \/ Contains(GetList(req.follow), key)
    \/ key \in Keys(req)

\* The loop of build_exclude over schema._declared_fields.items(), from the
\* i-th declared name on; exclude is the list being appended to.
RECURSIVE ExcludeLoop(_, _, _, _)
ExcludeLoop(fields, req, exclude, i) ==
    IF i > Len(DeclOrder) THEN exclude
    ELSE LET key == DeclOrder[i] IN
         IF /\ key \in DOMAIN fields
            /\ ~AlreadyExcluded(exclude, key)
            /\ IsRelationship(fields[key])
            /\ ~OptedIn(req, key)
         THEN ExcludeLoop(fields, req, Append(exclude, key), i + 1)
         ELSE ExcludeLoop(fields, req, exclude, i + 1)

\* ViewSchema.build_exclude(original), for list-valued keys.
build_exclude(schema, req) ==
    IF schema.present
    THEN ExcludeLoop(schema.fields, req, GetList(req.exclude), 1)
    ELSE GetList(req.exclude)

\* ViewSchema(context={'_exclude_rels': schema}).load(req).data: the fields
\* _only (missing=None), _exclude and _follow (missing=list) are loaded,
\* unknown keys are dropped from the loaded data, and the post_load hook
\* `final` builds {only, exclude, context} from the data and the original.
ViewLoad(schema, req) ==
    [done |-> TRUE,
     only |-> req.only,
     exclude |-> build_exclude(schema, req),
     context |-> [only |-> Absent, exclude |-> Absent,
                  follow |-> Given(GetList(req.follow)),
                  extra |-> req.extra]]

NotLoaded == [done |-> FALSE, only |-> Absent, exclude |-> <<>>, context |-> EmptyRequest]

\* build_exclude appends to the list object stored under '_exclude' in the
\* caller's mapping (`final` copies the mapping, not the lists in it).
AfterLoad(schema, req) ==
    IF schema.present /\ req.exclude.given
    THEN [req EXCEPT !.exclude = Given(build_exclude(schema, req))]
    ELSE req

----------------------------------------------------------------------------
(* The view specification: resolving requests against schemas              *)

Lists == ListsOver(FieldNames, MaxListLen)
ListVals == {Absent} \cup {Given(s) : s \in Lists}

\* The schemas: any subset of the names declared, "title" a plain value or
\* a Nested field that is no relationship, the others relationships.
ViewSchemas ==
    {NoSchema} \cup
    {ExcludeRels([n \in D |-> IF n = "title" THEN t ELSE RelField("Model")]) :
        D \in SUBSET FieldNames, t \in {ValueField, PlainNested}}

\* The flat requests: nested entries are empty requests.
FlatRequests ==
    {[only |-> o, exclude |-> e, follow |-> f, extra |-> [n \in K |-> EmptyRequest]] :
        o \in ListVals, e \in ListVals, f \in ListVals, K \in SUBSET FieldNames}

ViewIdle ==
    /\ vschema = NoSchema
    /\ given = EmptyRequest
    /\ original = EmptyRequest
    /\ loaded = NotLoaded
    /\ reloaded = NotLoaded

ViewInit ==
    /\ vschema \in ViewSchemas
    /\ given = EmptyRequest
    /\ original = EmptyRequest
    /\ loaded = NotLoaded
    /\ reloaded = NotLoaded

\* ViewSchema(context=...).load(req)
DoViewLoad ==
    /\ ~loaded.done
    /\ \E req \in FlatRequests :
        /\ given' = req
        /\ original' = AfterLoad(vschema, req)
        /\ loaded' = ViewLoad(vschema, req)
    /\ UNCHANGED <<vschema, reloaded>>
    /\ UNCHANGED notView

\* A second load against the same schema, the first result's exclude given
\* as _exclude and everything else as before.
DoViewReload ==
    /\ loaded.done
    /\ ~reloaded.done
    /\ reloaded' = ViewLoad(vschema, [given EXCEPT !.exclude = Given(loaded.exclude)])
    /\ UNCHANGED <<vschema, given, original, loaded>>
    /\ UNCHANGED notView

ViewNext == DoViewLoad \/ DoViewReload

\* The relationship fields of a schema that a request names in none of
\* _only, _follow or a nested-context key.
UnoptedRelationships(schema, req) ==
    {k \in DOMAIN schema.fields :
        /\ IsRelationship(schema.fields[k])
        /\ k \notin ToSet(GetList(req.only))
        /\ k \notin ToSet(GetList(req.follow))
        /\ k \notin DOMAIN req.extra}

\* C1: a request resolved against a target schema has as its effective
\* exclude set the caller's exclude plus exactly the relationship fields of
\* the schema named in none of only, follow or a nested-context key; no
\* opted-in relationship and no other field is added.
C1_AutoExclusion ==
    (loaded.done /\ vschema.present) =>
        ToSet(loaded.exclude) =
            ToSet(GetList(given.exclude)) \cup UnoptedRelationships(vschema, given)

\* C1 witness: "posts" is followed and stays out, "author" is opted into
\* nowhere and is added, the plain field "title" is left alone.
C1_Witness ==
    /\ loaded.done /\ vschema.present
    /\ DOMAIN vschema.fields = FieldNames
    /\ given.follow = Given(<<"posts">>)
    /\ given.exclude = Given(<<>>)
    /\ loaded.exclude = <<"author">>

NoRepeats(s) == \A i, j \in 1..Len(s) : i # j => s[i] # s[j]

\* C10: resolving again with the first result's exclude as the exclude
\* gives the same exclude list: nothing is added and no name is repeated.
C10_ResolutionIdempotent ==
    reloaded.done =>
        /\ reloaded.exclude = loaded.exclude
        /\ NoRepeats(reloaded.exclude)

\* C10 witness: the first resolution added a relationship to the caller's
\* exclude, and the second resolution has run.
C10_Witness ==
    /\ reloaded.done /\ vschema.present
    /\ given.exclude = Given(<<"title">>)
    /\ loaded.exclude = <<"title", "posts", "author">>

----------------------------------------------------------------------------
(* Serialization: to_json and the patched Nested._serialize                *)

Models == {"User", "Post"}
RelNames == {"posts", "author"}

\* The schema JsonMetaMixin builds for a model of the graph g: "title" from
\* a column, "posts" and "author" from relationships to g[model][name].
SchemaOf(g, model) ==
    [n \in FieldNames |-> IF n \in RelNames THEN RelField(g[model][n]) ELSE ValueField]

Graphs == [Models -> [RelNames -> Models]]

\* marshmallow's Schema(only=, exclude=): the declared fields that are
\* dumped. An empty or missing `only` selects every declared field.
Dumped(fields, only, exclude) ==
    (IF only.given /\ Len(only.items) > 0
     THEN DOMAIN fields \cap ToSet(only.items)
     ELSE DOMAIN fields) \ ToSet(exclude)

\* self.context.get(attr, {})
InheritParentContextMutant(context, attr) == context
NestedContext(context, attr) ==
    IF attr \in DOMAIN context.extra THEN context.extra[attr] ELSE EmptyRequest

NoFrame ==
    [active |-> FALSE, form |-> None, depth |-> 0, model |-> None, via |-> None,
     spec |-> EmptyRequest, only |-> Absent, exclude |-> <<>>,
     context |-> EmptyRequest, parent |-> EmptyRequest]

\* to_json(**kwargs): the request is resolved against the model's own schema
\* and the schema is instantiated with the resulting only/exclude/context.
KeywordFrame(g, model, kwargs) ==
    LET params == ViewLoad(ExcludeRels(SchemaOf(g, model)), kwargs) IN
    [active |-> TRUE, form |-> "keyword", depth |-> 0, model |-> model, via |-> None,
     spec |-> kwargs, only |-> params.only, exclude |-> params.exclude,
     context |-> params.context, parent |-> EmptyRequest]

\* to_json(params): the dict is handed to the schema constructor as it is,
\* params = {only, exclude, context}; no ViewSchema is involved.
PositionalFrame(g, model, params) ==
    [active |-> TRUE, form |-> "positional", depth |-> 0, model |-> model, via |-> None,
     spec |-> [only |-> params.only, exclude |-> params.exclude,
               follow |-> params.context.follow, extra |-> params.context.extra],
     only |-> params.only, exclude |-> GetList(params.exclude),
     context |-> params.context, parent |-> EmptyRequest]

\* _serialize_relationship(self, value, attr, obj) on the field `attr` of the
\* schema instance fr: the nested request is looked up in the schema's
\* context, resolved against the related class, and the nested schema gets
\* the resolved only/exclude and the nested request as its context.
NestedFrame(g, fr, attr) ==
    LET attr_ctx == NestedContext(fr.context, attr)
        related == SchemaOf(g, fr.model)[attr].related
        params == ViewLoad(ExcludeRels(SchemaOf(g, related)), attr_ctx)
    IN [active |-> TRUE, form |-> "nested", depth |-> fr.depth + 1, model |-> related,
        via |-> attr, spec |-> attr_ctx, only |-> params.only, exclude |-> params.exclude,
        context |-> attr_ctx, parent |-> fr.context]

\* The requests a caller passes. Lists hold at most one name; nested
\* requests are flat, so a dump is at most three schemas deep.
DumpOnly == {Absent, Given(<<"title">>), Given(<<"posts">>)}
DumpExclude == {Absent, Given(<<"posts">>)}
DumpFollow == {Absent, Given(<<"posts">>), Given(<<"author">>)}

NestedRequests ==
    {[only |-> o, exclude |-> e, follow |-> f, extra |-> NoExtra] :
        o \in {Absent, Given(<<"posts">>)}, e \in DumpExclude,
        f \in {Absent, Given(<<"author">>)}}

Contexts ==
    {[only |-> Absent, exclude |-> Absent, follow |-> f, extra |-> x] :
        f \in DumpFollow,
        x \in UNION {[K -> NestedRequests] : K \in SUBSET RelNames}}

KeywordRequests ==
    {[only |-> o, exclude |-> e, follow |-> c.follow, extra |-> c.extra] :
        o \in DumpOnly, e \in DumpExclude, c \in Contexts}

PositionalParams ==
    {[only |-> o, exclude |-> e, context |-> c] :
        o \in DumpOnly, e \in DumpExclude, c \in Contexts}

DumpIdle ==
    /\ graph = [m \in Models |-> [r \in RelNames |-> m]]
    /\ frame = NoFrame

DumpInit ==
    /\ graph \in Graphs
    /\ frame = NoFrame

\* instance.to_json(**kwargs)
ToJsonKeyword ==
    /\ ~frame.active
    /\ \E model \in Models, kwargs \in KeywordRequests :
        frame' = KeywordFrame(graph, model, kwargs)
    /\ UNCHANGED graph
    /\ UNCHANGED notDump

\* instance.to_json(params) with a single dict
ToJsonPositional ==
    /\ ~frame.active
    /\ \E model \in Models, params \in PositionalParams :
        frame' = PositionalFrame(graph, model, params)
    /\ UNCHANGED graph
    /\ UNCHANGED notDump

\* The dump of the current schema instance reaches a relationship field it
\* serializes, and marshmallow calls the field's patched _serialize.
SerializeRelationship ==
    /\ frame.active
    /\ \E attr \in Dumped(SchemaOf(graph, frame.model), frame.only, frame.exclude) :
        /\ IsRelationship(SchemaOf(graph, frame.model)[attr])
        /\ frame' = NestedFrame(graph, frame, attr)
    /\ UNCHANGED graph
    /\ UNCHANGED notDump

DumpNext == ToJsonKeyword \/ ToJsonPositional \/ SerializeRelationship

\* A request names a field in _only, in _follow or as a nested-context key.
Names(req, name) ==
    \/ name \in ToSet(GetList(req.only))
    \/ name \in ToSet(GetList(req.follow))
    \/ name \in DOMAIN req.extra

\* The relationship fields the schema instance of a frame serializes.
SerializedRelationships(fr) ==
    {r \in Dumped(SchemaOf(graph, fr.model), fr.only, fr.exclude) :
        IsRelationship(SchemaOf(graph, fr.model)[r])}

\* The entry of the parent's context stored under the followed field.
OwnNestedSpec(fr) ==
    IF fr.via \in DOMAIN fr.parent.extra THEN fr.parent.extra[fr.via] ELSE EmptyRequest

\* A nested frame is resolved with its own nested spec against its own
\* target schema: nothing of the parent's only/exclude enters.
ResolvedOnItsOwn(fr) ==
    /\ fr.spec = OwnNestedSpec(fr)
    /\ fr.only = fr.spec.only
    /\ ToSet(fr.exclude) =
           ToSet(GetList(fr.spec.exclude))
           \cup UnoptedRelationships(ExcludeRels(SchemaOf(graph, fr.model)), fr.spec)

\* C2 as stated: at every depth of every to_json call, keyword or
\* positional, a relationship field is serialized only if the view spec in
\* force at that depth names it in only, in follow or as a context key, and
\* every nested frame is resolved on its own.
C2_AsStated ==
    frame.active =>
        /\ \A r \in SerializedRelationships(frame) : Names(frame.spec, r)
        /\ frame.depth > 0 => ResolvedOnItsOwn(frame)

\* C2 amended: the rule holds at every depth of a keyword call and at
\* every depth below the top of a positional call; at the top of a
\* positional call the dict is the schema's parameters as they are, and a
\* relationship is serialized exactly when the dict's only admits it and
\* the dict's exclude does not list it.
C2_DefaultClosed ==
    frame.active =>
        /\ frame.form # "positional" =>
               \A r \in SerializedRelationships(frame) : Names(frame.spec, r)
        /\ frame.form = "positional" =>
               \A r \in RelNames :
                   r \in SerializedRelationships(frame) <=>
                       /\ r \notin ToSet(GetList(frame.spec.exclude))
                       /\ (GetList(frame.spec.only) = <<>>
                           \/ r \in ToSet(GetList(frame.spec.only)))
        /\ frame.depth > 0 => ResolvedOnItsOwn(frame)

\* C2 witness: in the cycle User.posts -> Post, Post.author -> User, a
\* keyword call on a User follows posts, and the Post in it follows author
\* back to a User two levels down, where no relationship is serialized.
C2_Witness ==
    /\ frame.active /\ frame.depth = 1 /\ frame.via = "posts"
    /\ frame.model = "Post"
    /\ graph["User"]["posts"] = "Post" /\ graph["Post"]["author"] = "User"
    /\ frame.parent.follow = Given(<<"posts">>)
    /\ SerializedRelationships(frame) = {"author"}
    /\ SerializedRelationships(NestedFrame(graph, frame, "author")) = {}

----------------------------------------------------------------------------
(* Field synthesis: _make_field and the converters of FIELD_MAP            *)

\* Python values are written as strings: True, False, None, the names of
\* marshmallow's field classes, and the identities of field instances.
PyTrue == "True"
PyFalse == "False"
PyBool(b) == IF b THEN PyTrue ELSE PyFalse

\* marshmallow.missing, the default of a field's `missing`
MissingSentinel == "missing"

FieldClasses == {"Raw", "String", "Integer", "Float", "Nested"}
FieldInstances == {"instance1", "instance2"}

\* isinstance(v, mm.fields.Field)
IsFieldInstance(v) == v \in FieldInstances

\* bool(v) of a `field` override: None is false, a class or an instance true
Truthy(v) == v # None

\* Dicts of options: dict.update, dict.get with a default, a dict less a key.
EmptyDict == [k \in {} |-> None]
Update(a, b) == [k \in DOMAIN a \cup DOMAIN b |-> IF k \in DOMAIN b THEN b[k] ELSE a[k]]
Get(d, key, default) == IF key \in DOMAIN d THEN d[key] ELSE default
Without(d, key) == [k \in DOMAIN d \ {key} |-> d[k]]

\* The keyword arguments mm.fields.Field takes by name; any other keyword
\* becomes metadata.
FieldKwargs == {"required", "allow_none", "dump_only", "missing", "many"}

\* field_type(**options): a new field object.
Construct(cls, options) ==
    [cls |-> cls, id |-> "new",
     required |-> Get(options, "required", PyFalse),
     allow_none |-> Get(options, "allow_none",
                        PyBool(Get(options, "missing", MissingSentinel) = None)),
     dump_only |-> Get(options, "dump_only", PyFalse),
     missing |-> Get(options, "missing", MissingSentinel),
     many |-> Get(options, "many", PyFalse),
     metadata |-> [k \in DOMAIN options \ FieldKwargs |-> options[k]],
     related |-> None,
     foreign |-> None]

\* A field instance the caller constructed, mm.fields.String().
InstanceField(id) == [Construct("String", EmptyDict) EXCEPT !.id = id]

NoFieldObject == [Construct(None, EmptyDict) EXCEPT !.id = None]

\* What a call produced: a field, None, or an exception. `info` is the
\* attribute's annotation bag after the call.
Returned(field, info) == [status |-> "field", field |-> field, info |-> info]
ReturnedNone(info) == [status |-> "None", field |-> NoFieldObject, info |-> info]
Raised(error, info) == [status |-> error, field |-> NoFieldObject, info |-> info]

\* FIELD_MAP.get(col.type.python_type, mm.fields.Raw)
TypeField(pytype) ==
    CASE pytype = "int" -> "Integer"
      [] pytype = "str" -> "String"
      [] OTHER -> "Raw"

\* column_default(col): None without a default, the scalar of a scalar
\* default, and for a callable default a new zero-argument function that
\* calls it with an empty context.
column_default(col) ==
    CASE col.default = "ColumnDefault(5)" -> "5"
      [] col.default = "ColumnDefault(lambda: 5)" -> "lambda: col.default.arg({})"
      [] OTHER -> None

\* The options _column_to_field derives from the column (lines 236-241).
NoColumnDefaultsMutant(col) == EmptyDict
ColumnDefaults(col) ==
    [k \in {"required", "allow_none", "dump_only", "missing"} |->
        CASE k = "required" -> PyBool(~col.nullable)
          [] k = "allow_none" -> PyBool(col.nullable)
          [] k = "dump_only" -> PyBool(col.primary_key)
          [] OTHER -> column_default(col)]

\* _column_to_field(cls, col, name, opts)
column_to_field(col, o) ==
    LET info == col.info
        field_type == IF "field" \in DOMAIN info THEN info["field"]
                      ELSE IF "field" \in DOMAIN o THEN o["field"]
                      ELSE TypeField(col.pytype)
    IN IF field_type = None THEN ReturnedNone(info)
       ELSE IF IsFieldInstance(field_type) THEN Returned(InstanceField(field_type), info)
       ELSE LET options == Update(Update(ColumnDefaults(col), o), info)
                field == Construct(field_type, options)
            IN IF col.fkeys = 1 THEN Returned([field EXCEPT !.foreign = "foreign_class"], info)
               ELSE IF col.fkeys > 1 THEN Raised("ValueError", info)
               ELSE Returned(field, info)

\* _hybrid_to_field and _prop_to_field: the same code, the setter read from
\* hybrid.fset or prop.setter. `field` is popped from the annotation bag,
\* and from opts when the bag's is missing or None.
property_to_field(prop, o) ==
    LET fromInfo == Get(prop.info, "field", None)
        fromOpts == Get(o, "field", None)
        info == Without(prop.info, "field")
        field_type == IF Truthy(fromInfo) THEN fromInfo
                      ELSE IF Truthy(fromOpts) THEN fromOpts
                      ELSE "Raw"
        rest == IF Truthy(fromInfo) THEN o ELSE Without(o, "field")
        options == Update(Update([k \in {"dump_only"} |-> PyBool(~prop.setter)], rest), info)
    IN IF IsFieldInstance(field_type) THEN Returned(InstanceField(field_type), info)
       ELSE Returned(Construct(field_type, options), info)

\* _relationship_to_field(cls, rel, name, opts)
relationship_to_field(rel, o) ==
    LET merged == Update(o, rel.info)
        options == IF rel.uselist
                   THEN Update(merged, [k \in {"many"} |-> PyTrue])
                   ELSE merged
    IN Returned([Construct("Nested", options) EXCEPT !.related = rel.target], rel.info)

Converters == {"_column_to_field", "_hybrid_to_field", "_relationship_to_field", "_prop_to_field"}

\* FIELD_MAP.get(type(attr), None)
FIELD_MAP(a) ==
    CASE a.kind = "column" -> "_column_to_field"
      [] a.kind = "hybrid" -> "_hybrid_to_field"
      [] a.kind = "relationship" -> "_relationship_to_field"
      [] a.kind = "jb_property" -> "_prop_to_field"
      [] a.kind = "str" -> "String"
      [] OTHER -> None

\* field_type(cls, attr, name, field_opts) for a converter of FIELD_MAP
Convert(fn, a, o) ==
    CASE fn = "_column_to_field" -> column_to_field(a, o)
      [] fn = "_relationship_to_field" -> relationship_to_field(a, o)
      [] OTHER -> property_to_field(a, o)

\* The entry of __schema_args__ for an attribute: None, a field instance, a
\* field class, or a dict of options ({} when there is no entry).
OptsNone == [tag |-> "None", value |-> None, dict |-> EmptyDict]
OptsInstance(id) == [tag |-> "instance", value |-> id, dict |-> EmptyDict]
OptsClass(cls) == [tag |-> "class", value |-> cls, dict |-> EmptyDict]
OptsDict(d) == [tag |-> "dict", value |-> None, dict |-> d]

\* _make_field(cls, attr, name, opts)
make_field(a, o) ==
    LET field_opts == IF o.tag = "dict" THEN Without(o.dict, "field") ELSE EmptyDict IN
    IF o.tag = "None" THEN ReturnedNone(a.info)
    ELSE IF o.tag = "instance" THEN Returned(InstanceField(o.value), a.info)
    ELSE LET field_type == IF o.tag = "class" THEN o.value
                           ELSE IF "field" \in DOMAIN o.dict THEN o.dict["field"]
                           ELSE FIELD_MAP(a)
         IN IF field_type = None THEN ReturnedNone(a.info)
            ELSE IF field_type \in Converters THEN Convert(field_type, a, field_opts)
            ELSE IF field_type \in FieldClasses
                 THEN Returned(Construct(field_type, field_opts), a.info)
                 ELSE Raised("TypeError", a.info)

\* The declared attributes.
Attribute(kind, info) ==
    [kind |-> kind, info |-> info, nullable |-> TRUE, primary_key |-> FALSE,
     default |-> None, pytype |-> None, fkeys |-> 0, setter |-> FALSE,
     target |-> None, uselist |-> FALSE]

Infos ==
    {Update(Update(Update(f, r), t), m) :
        f \in {EmptyDict} \cup {[k \in {"field"} |-> v] : v \in {None, "instance1", "Float"}},
        r \in {EmptyDict, [k \in {"required"} |-> PyTrue]},
        t \in {EmptyDict, [k \in {"title"} |-> "annotated title"]},
        m \in {EmptyDict, [k \in {"missing"} |-> "7"]}}

Columns ==
    {[Attribute("column", i) EXCEPT !.nullable = n, !.primary_key = pk,
                                      !.default = d, !.pytype = t, !.fkeys = fk] :
        i \in Infos, n \in BOOLEAN, pk \in BOOLEAN,
        d \in {None, "ColumnDefault(5)", "ColumnDefault(lambda: 5)"},
        t \in {"int", "bytes"}, fk \in 0..MaxForeignKeys}

Properties ==
    {[Attribute(k, i) EXCEPT !.setter = st] :
        k \in {"hybrid", "jb_property"}, i \in Infos, st \in BOOLEAN}

Relationships ==
    {[Attribute("relationship", i) EXCEPT !.target = "Post", !.uselist = u] :
        i \in Infos, u \in BOOLEAN}

\* Class attributes that are no mapped attribute: a string constant, a method.
Others == {Attribute("str", EmptyDict), Attribute("function", EmptyDict)}

Attributes == Columns \cup Properties \cup Relationships \cup Others

SchemaArgs ==
    {OptsNone, OptsInstance("instance2"), OptsClass("String")} \cup
    {OptsDict(Update(Update(f, r), t)) :
        f \in {EmptyDict} \cup {[k \in {"field"} |-> v] : v \in {None, "instance2", "String"}},
        r \in {EmptyDict, [k \in {"required"} |-> PyTrue], [k \in {"required"} |-> PyFalse]},
        t \in {EmptyDict, [k \in {"title"} |-> "caller title"]}}

NothingMade == [status |-> "not called", field |-> NoFieldObject, info |-> EmptyDict]

FieldIdle ==
    /\ declared = Attribute("function", EmptyDict)
    /\ entry = OptsDict(EmptyDict)
    /\ made = NothingMade

\* JsonMetaMixin.__init__ reaches an attribute of the class body:
\* _make_field(cls, attr, attr_name, schema_args.get(attr_name, {}))
DoMakeField ==
    /\ made.status = "not called"
    /\ \E a \in Attributes, o \in SchemaArgs :
        /\ declared' = a
        /\ entry' = o
        /\ made' = make_field(a, o)
    /\ UNCHANGED notField

FieldNext == DoMakeField

\* The `field` override an attribute carries in its annotation bag, and the
\* one its __schema_args__ entry carries (the entry itself, or its 'field').
AnnotatedOverride == Get(declared.info, "field", "absent")
CallerOverride == IF entry.tag = "dict" THEN Get(entry.dict, "field", "absent") ELSE entry.value

MappedKinds == {"column", "relationship", "hybrid", "jb_property"}

\* C3: for every attribute kind and every way of supplying the override
\* (annotation bag, __schema_args__ entry, or its 'field' key), an override
\* that is a field instance is the schema's field, whatever other options
\* come with it, and an override of None leaves the schema without a field.
C3_AsStated ==
    (/\ made.status # "not called"
     /\ declared.kind \in MappedKinds
     /\ (AnnotatedOverride = "absent") # (CallerOverride = "absent")) =>
        LET override == IF AnnotatedOverride # "absent" THEN AnnotatedOverride
                        ELSE CallerOverride
        IN /\ IsFieldInstance(override) =>
                  made.status = "field" /\ made.field = InstanceField(override)
           /\ override = None => made.status = "None"

\* The part of C3 the code keeps: a column's annotation-bag override and an
\* override given as the __schema_args__ entry itself.
C3_Holds ==
    (/\ made.status # "not called"
     /\ declared.kind \in MappedKinds
     /\ (AnnotatedOverride = "absent") # (CallerOverride = "absent")
     /\ \/ entry.tag \in {"None", "instance"}
        \/ declared.kind = "column" /\ AnnotatedOverride # "absent") =>
        LET override == IF AnnotatedOverride # "absent" THEN AnnotatedOverride
                        ELSE CallerOverride
        IN /\ IsFieldInstance(override) =>
                  made.status = "field" /\ made.field = InstanceField(override)
           /\ override = None => made.status = "None"

\* The options the claim C9 expects of a column's field.
ExpectedColumnOptions ==
    LET typeDriven ==
            [k \in {"required", "allow_none", "dump_only", "missing"} |->
                CASE k = "required" -> PyBool(~declared.nullable)
                  [] k = "allow_none" -> PyBool(declared.nullable)
                  [] k = "dump_only" -> PyBool(declared.primary_key)
                  [] declared.default = "ColumnDefault(5)" -> "5"
                  [] declared.default = "ColumnDefault(lambda: 5)" ->
                         "lambda: col.default.arg({})"
                  [] OTHER -> None]
    IN Update(Update(typeDriven, Without(entry.dict, "field")),
              Without(declared.info, "field"))

\* The field class C9 expects: the annotation bag's, else the caller's, else
\* the one the column's type maps to.
ExpectedColumnClass ==
    IF AnnotatedOverride # "absent" THEN AnnotatedOverride
    ELSE IF CallerOverride # "absent" THEN CallerOverride
    ELSE IF declared.pytype = "int" THEN "Integer" ELSE "Raw"

\* C9: a column whose field is given as a field class, or left to the
\* type-driven default, gets the type-driven options overlaid by the
\* caller's options overlaid by the annotation bag, and the annotation bag
\* wins a conflict over `field` itself.
C9_AsStated ==
    (/\ made.status # "not called"
     /\ declared.kind = "column"
     /\ declared.fkeys <= 1
     /\ ExpectedColumnClass \in FieldClasses) =>
        /\ made.status = "field"
        /\ made.field.cls = ExpectedColumnClass
        /\ \A k \in {"required", "allow_none", "dump_only", "missing"} :
               made.field[k] = ExpectedColumnOptions[k]
        /\ "title" \in DOMAIN ExpectedColumnOptions =>
               Get(made.field.metadata, "title", None) = ExpectedColumnOptions["title"]

\* The part of C9 the code keeps: the field class comes from the annotation
\* bag or from the column's type, the caller gives options only.
C9_Holds ==
    (/\ made.status # "not called"
     /\ declared.kind = "column"
     /\ declared.fkeys <= 1
     /\ CallerOverride = "absent"
     /\ ExpectedColumnClass \in FieldClasses) =>
        /\ made.status = "field"
        /\ made.field.cls = ExpectedColumnClass
        /\ \A k \in {"required", "allow_none", "dump_only", "missing"} :
               made.field[k] = ExpectedColumnOptions[k]
        /\ "title" \in DOMAIN ExpectedColumnOptions =>
               Get(made.field.metadata, "title", None) = ExpectedColumnOptions["title"]

----------------------------------------------------------------------------
(* Schema building: JsonMetaMixin.__init__                                 *)

\* The classes: JsonBase, made by declarative_base(cls=JsonMixin,
\* metaclass=JsonBaseMeta), and the models that extend it.
ModelNames == {"A", "B"}
ClassNames == {"JsonBase"} \cup ModelNames

\* The names a class body may bind, in the order of dict_.items().
BodyOrder == <<"id", "name", "_secret">>
BodyNames == ToSet(BodyOrder)

\* attr_name.startswith('_')
StartsWithUnderscore(name) == name \in {"_secret", "__tablename__", "__schema_args__"}

NoEntry == OptsDict(EmptyDict)
NoArgs == [n \in {} |-> NoEntry]
NoBody == [n \in {} |-> Attribute("function", EmptyDict)]
NoFieldsBuilt == [n \in {} |-> NoFieldObject]

Undefined ==
    [defined |-> FALSE, base |-> None, body |-> NoBody, schema |-> 0, schema_args |-> NoArgs]

\* schema_args.get(attr_name, {}) and the call of _make_field for one item
\* of the class body.
FieldFor(body, schema_args, name) ==
    make_field(body[name], IF name \in DOMAIN schema_args THEN schema_args[name] ELSE NoEntry)

\* The loop over dict_.items(): the names that are not skipped.
Visited(body) == {n \in DOMAIN body : ~StartsWithUnderscore(n)}

\* The loop raises when _make_field raises for some item.
BuildError(body, schema_args) ==
    LET failing == {i \in 1..Len(BodyOrder) :
                       /\ BodyOrder[i] \in Visited(body)
                       /\ FieldFor(body, schema_args, BodyOrder[i]).status
                              \notin {"field", "None"}}
    IN IF failing = {} THEN "ok"
       ELSE FieldFor(body, schema_args,
                     BodyOrder[CHOOSE i \in failing : \A j \in failing : i <= j]).status

\* `fields` after the loop: the items for which _make_field gave a field.
OwnFields(body, schema_args) ==
    [n \in {x \in Visited(body) : FieldFor(body, schema_args, x).status = "field"} |->
        FieldFor(body, schema_args, n).field]

\* type(cls.__name__, (BaseSchema,), fields): a new schema class whose
\* _declared_fields are the base's, overridden by name.
SubclassInPlaceMutant(heap, base, fields) ==
    Append([heap EXCEPT ![base] = Update(heap[base], fields)], Update(heap[base], fields))
Subclass(heap, base, fields) ==
    Append(heap, Update(heap[base], fields))

\* The class bodies and __schema_args__ a class statement may carry.
NameAttributes ==
    {[Attribute("column", EmptyDict) EXCEPT !.pytype = "str"],
     [Attribute("column", [k \in {"field"} |-> None]) EXCEPT !.pytype = "str"],
     [Attribute("hybrid", EmptyDict) EXCEPT !.setter = TRUE],
     [Attribute("column", EmptyDict) EXCEPT !.pytype = "int", !.fkeys = 1],
     [Attribute("column", EmptyDict) EXCEPT !.pytype = "int", !.fkeys = MaxForeignKeys],
     [Attribute("column", [k \in {"field"} |-> "instance1"])
         EXCEPT !.pytype = "int", !.fkeys = MaxForeignKeys]}

Bodies ==
    {Update(Update(i, n), p) :
        i \in {NoBody, [k \in {"id"} |->
                  [Attribute("column", EmptyDict) EXCEPT !.pytype = "int",
                                                         !.primary_key = TRUE,
                                                         !.nullable = FALSE]]},
        n \in {NoBody} \cup {[k \in {"name"} |-> a] : a \in NameAttributes},
        p \in {NoBody, [k \in {"_secret"} |->
                  [Attribute("column", EmptyDict) EXCEPT !.pytype = "str"]]}}

ClassArgs ==
    {NoArgs} \cup
    {[k \in {"name"} |-> e] :
        e \in {OptsNone, OptsClass("Float"), OptsInstance("instance1"),
               OptsDict([k \in {"field"} |-> "instance2"])}} \cup
    {[k \in {"_secret"} |-> OptsClass("String")]}

BuildIdle ==
    /\ classes = [c \in ClassNames |-> Undefined]
    /\ schemas = <<>>
    /\ built = "nothing"

\* JsonBase = declarative_base(cls=JsonMixin, metaclass=JsonBaseMeta): its
\* schema extends mm.Schema and has no fields.
BuildInit ==
    /\ classes = [c \in ClassNames |->
                     IF c = "JsonBase"
                     THEN [defined |-> TRUE, base |-> None, body |-> NoBody,
                           schema |-> 1, schema_args |-> NoArgs]
                     ELSE Undefined]
    /\ schemas = <<NoFieldsBuilt>>
    /\ built = "nothing"

\* class name(base): <body>, with or without a __schema_args__ of its own.
\* JsonMetaMixin.__init__ merges the base's schema args with the class's
\* (which are the base's when the body binds none), makes the fields, and
\* binds the new schema class and the merged args on the class.
DefineModel ==
    \E name \in ModelNames, base \in ClassNames, body \in Bodies,
       these \in ClassArgs, own \in BOOLEAN :
        /\ ~classes[name].defined
        /\ classes[base].defined
        /\ own \/ these = NoArgs
        /\ LET base_args == classes[base].schema_args
               these_args == IF own THEN these ELSE base_args
               schema_args == Update(base_args, these_args)
               error == BuildError(body, schema_args)
           IN IF error = "ok"
              THEN /\ schemas' = Subclass(schemas, classes[base].schema,
                                          OwnFields(body, schema_args))
                   /\ classes' = [classes EXCEPT ![name] =
                                     [defined |-> TRUE, base |-> base, body |-> body,
                                      schema |-> Len(schemas) + 1,
                                      schema_args |-> schema_args]]
                   /\ built' = "ok"
              ELSE /\ built' = error
                   /\ UNCHANGED <<classes, schemas>>
        /\ UNCHANGED notBuild

BuildNext == DefineModel

\* The models that exist, and each one's schema and its base's schema.
DefinedModels == {c \in ModelNames : classes[c].defined}
SchemaOfClass(c) == schemas[classes[c].schema]
BaseSchemaOf(c) == schemas[classes[classes[c].base].schema]

\* The attributes of a model's own body that gave a field.
Synthesized(c) == DOMAIN OwnFields(classes[c].body, classes[c].schema_args)

PrivateNames == {"_secret"}

C8_Shape ==
    /\ DOMAIN SchemaOfClass("JsonBase") = {}
    /\ \A c \in DefinedModels :
          /\ classes[c].schema # classes[classes[c].base].schema
          /\ \A d \in DefinedModels : d # c => classes[d].schema # classes[c].schema
          /\ DOMAIN SchemaOfClass(c) = DOMAIN BaseSchemaOf(c) \cup Synthesized(c)
          /\ \A f \in DOMAIN BaseSchemaOf(c) \ Synthesized(c) :
                SchemaOfClass(c)[f] = BaseSchemaOf(c)[f]
          /\ \A f \in Synthesized(c) :
                SchemaOfClass(c)[f] = FieldFor(classes[c].body, classes[c].schema_args, f).field
          /\ DOMAIN SchemaOfClass(c) \cap PrivateNames = {}

C8_BaseUntouched ==
    /\ Len(schemas') >= Len(schemas)
    /\ \A i \in 1..Len(schemas) : schemas'[i] = schemas[i]
    /\ \A c \in ClassNames : classes[c].defined => classes'[c] = classes[c]

\* C8: after any sequence of model definitions, each model's schema is a
\* schema object of its own holding its base's fields overridden by name
\* with the fields made from its own attributes, none of them for a name
\* that starts with '_'; and no class statement changes a schema that
\* already exists.
C8_SchemaInheritance == []C8_Shape /\ [][C8_BaseUntouched]_vars

\* B extends A, inherits `id`, overrides `name` with another field and
\* binds a private name.
C8_Witness ==
    /\ classes["A"].defined /\ classes["B"].defined
    /\ classes["B"].base = "A"
    /\ "_secret" \in DOMAIN classes["B"].body
    /\ "id" \in DOMAIN SchemaOfClass("A") /\ "id" \notin DOMAIN classes["B"].body
    /\ "name" \in DOMAIN SchemaOfClass("A") /\ "name" \in Synthesized("B")
    /\ SchemaOfClass("B")["name"] # SchemaOfClass("A")["name"]
    /\ SchemaOfClass("B")["id"] = SchemaOfClass("A")["id"]

\* The columns of a model's body that the loop visits, by foreign keys.
ColumnsWithKeys(c, K) ==
    {n \in Visited(classes[c].body) :
        classes[c].body[n].kind = "column" /\ classes[c].body[n].fkeys \in K}

\* The attribute has a `field` override: in its annotation bag, or as or in
\* its __schema_args__ entry.
Overridden(c, n) ==
    \/ "field" \in DOMAIN classes[c].body[n].info
    \/ /\ n \in DOMAIN classes[c].schema_args
       /\ \/ classes[c].schema_args[n].tag # "dict"
          \/ "field" \in DOMAIN classes[c].schema_args[n].dict

\* C11: a class statement whose body holds a column with more than one
\* foreign key fails, whatever override or option comes with the column, so
\* no model that exists has such a column; a column with one foreign key,
\* built by the column converter, has a field that carries the pointer to
\* the target model's name.
C11_AsStated ==
    \A c \in DefinedModels :
        /\ ColumnsWithKeys(c, 2..MaxForeignKeys) = {}
        /\ \A n \in ColumnsWithKeys(c, {1}) :
              ~Overridden(c, n) =>
                  /\ n \in DOMAIN SchemaOfClass(c)
                  /\ SchemaOfClass(c)[n].foreign = "foreign_class"

\* What the code keeps of C11: the error is raised by the column converter
\* after its early return, so it is fatal only for a column without a field
\* instance or None as its override and without a __schema_args__ entry that
\* names the field itself.
C11_WithoutOverride ==
    \A c \in DefinedModels :
        /\ \A n \in ColumnsWithKeys(c, 2..MaxForeignKeys) : Overridden(c, n)
        /\ \A n \in ColumnsWithKeys(c, {1}) :
              ~Overridden(c, n) =>
                  /\ n \in DOMAIN SchemaOfClass(c)
                  /\ SchemaOfClass(c)[n].foreign = "foreign_class"

\* A model exists whose column has two foreign keys and a field instance in
\* its annotation bag.
C11_BuiltDespiteKeys ==
    /\ classes["A"].defined /\ built = "ok"
    /\ "name" \in ColumnsWithKeys("A", 2..MaxForeignKeys)
    /\ "field" \in DOMAIN classes["A"].body["name"].info
    /\ SchemaOfClass("A")["name"] = InstanceField("instance1")

----------------------------------------------------------------------------
(* Loading: validate, from_json and update                                 *)

\* Python values are written as their literals: 7 is the int, '7' the str.
Call(m) == IF m = "lambda: col.default.arg({})" THEN "5" ELSE m

\* What loading one field gives: nothing, a value, or an error message.
Skipped == [tag |-> "skipped", value |-> None]
Value(v) == [tag |-> "value", value |-> v]
Invalid(msg) == [tag |-> "error", value |-> msg]

\* Integer._deserialize: int(value), or the failure 'invalid'.
ToInteger(value) ==
    CASE value = "'7'" -> Value("7")
      [] value \in {"4", "5", "7", "9"} -> Value(value)
      [] OTHER -> Invalid("Not a valid integer.")

\* Field.deserialize(value): the required and null checks, then the
\* conversion of the field's class.
Deserialize(field, value) ==
    IF value = MissingSentinel
    THEN IF field.required = PyTrue THEN Invalid("Missing data for required field.")
         ELSE Skipped
    ELSE IF value = None
    THEN IF field.allow_none = PyTrue THEN Value(None)
         ELSE Invalid("Field may not be null.")
    ELSE IF field.cls = "Integer" THEN ToInteger(value)
    ELSE Value(value)

\* One turn of the loop of marshmallow's Unmarshaller over the declared
\* fields: dump-only fields are skipped, a field absent from the data is
\* skipped under partial loading and otherwise takes its `missing` default.
LoadField(field, name, data, partial) ==
    IF field.dump_only = PyTrue THEN Skipped
    ELSE IF name \in DOMAIN data THEN Deserialize(field, data[name])
    ELSE IF partial THEN Skipped
    ELSE IF Call(field.missing) = MissingSentinel /\ field.required # PyTrue THEN Skipped
    ELSE Deserialize(field, Call(field.missing))

\* schema.load(data, partial=...) of a schema that is not strict: the
\* loaded values and the errors, side by side; nothing is raised.
Load(fields, data, partial) ==
    LET each == [n \in DOMAIN fields |-> LoadField(fields[n], n, data, partial)]
    IN [data |-> [n \in {x \in DOMAIN fields : each[x].tag = "value"} |-> each[n].value],
        errors |-> [n \in {x \in DOMAIN fields : each[x].tag = "error"} |-> each[n].value]]

\* self.__schema__().load(data, partial=True)
UpdateNotPartialMutant == FALSE
UpdatePartial == TRUE

\* The models: an integer primary key, a string column that may or may not
\* be nullable, an integer column with or without a default.
IdColumn ==
    [Attribute("column", EmptyDict) EXCEPT !.pytype = "int", !.primary_key = TRUE,
                                           !.nullable = FALSE]
NameColumn(nullable) ==
    [Attribute("column", EmptyDict) EXCEPT !.pytype = "str", !.nullable = nullable]
AgeColumn(default) ==
    [Attribute("column", EmptyDict) EXCEPT !.pytype = "int", !.default = default]

UpdateBodies ==
    {[n \in {"id", "name", "age"} |->
        CASE n = "id" -> IdColumn
          [] n = "name" -> NameColumn(nullable)
          [] OTHER -> AgeColumn(default)] :
        nullable \in BOOLEAN,
        default \in {None, "ColumnDefault(5)", "ColumnDefault(lambda: 5)"}}

AttributeNames == {"id", "name", "age"}

\* The mappings a caller may give: any subset of the declared names and of
\* an undeclared one, each with a valid or an invalid value.
Payloads ==
    {Update(Update(Update(i, n), a), x) :
        i \in {EmptyDict, [k \in {"id"} |-> "9"]},
        n \in {EmptyDict} \cup {[k \in {"name"} |-> v] : v \in {"'bob'", None}},
        a \in {EmptyDict} \cup {[k \in {"age"} |-> v] : v \in {"'7'", "'abc'", None}},
        x \in {EmptyDict, [k \in {"nickname"} |-> "'x'"]}}

\* cls(): an instance on which nothing is set yet.
Fresh == [n \in AttributeNames |-> None]
Stored == [n \in AttributeNames |->
              CASE n = "id" -> "1" [] n = "name" -> "'al'" [] OTHER -> "4"]

NoOutcome == [op |-> "none", status |-> "none", extra |-> EmptyDict, errors |-> EmptyDict]

\* update(data): the instance after the setattr loop and the returned extra.
Updated(fields, attrs, data) ==
    LET values == Load(fields, data, UpdatePartial).data
    IN [obj |-> Update(attrs, values),
        extra |-> [k \in DOMAIN data \ DOMAIN values |-> data[k]]]

UpdateIdle ==
    /\ ufields = NoFieldsBuilt
    /\ before = Fresh
    /\ obj = Fresh
    /\ payload = EmptyDict
    /\ outcome = NoOutcome

\* A model built from one of the bodies, and a stored instance of it.
UpdateInit ==
    /\ ufields \in {OwnFields(body, NoArgs) : body \in UpdateBodies}
    /\ before = Stored
    /\ obj = Stored
    /\ payload = EmptyDict
    /\ outcome = NoOutcome

\* obj.update(mapping) and obj.update(**mapping)
DoUpdate ==
    \E data \in Payloads :
        /\ before' = obj
        /\ payload' = data
        /\ obj' = Updated(ufields, obj, data).obj
        /\ outcome' = [op |-> "update", status |-> "returned",
                       extra |-> Updated(ufields, obj, data).extra, errors |-> EmptyDict]
        /\ UNCHANGED <<ufields, notUpdate>>

\* obj.update(x) with x no mapping, and obj.update(a, b)
DoUpdateBadArgs ==
    \E error \in {"TypeError", "ValueError"} :
        /\ before' = obj
        /\ payload' = EmptyDict
        /\ outcome' = [op |-> "update, bad arguments", status |-> error,
                       extra |-> EmptyDict, errors |-> EmptyDict]
        /\ UNCHANGED <<ufields, obj, notUpdate>>

\* cls.from_json(data): a new instance, updated.
DoFromJson ==
    \E data \in Payloads :
        /\ before' = Fresh
        /\ payload' = data
        /\ obj' = Updated(ufields, Fresh, data).obj
        /\ outcome' = [op |-> "from_json", status |-> "returned",
                       extra |-> EmptyDict, errors |-> EmptyDict]
        /\ UNCHANGED <<ufields, notUpdate>>

\* cls.validate(data, partial): the errors of a load, returned.
DoValidate ==
    \E data \in Payloads, partial \in BOOLEAN :
        /\ before' = obj
        /\ payload' = data
        /\ outcome' = [op |-> IF partial THEN "validate partial" ELSE "validate",
                       status |-> "returned", extra |-> EmptyDict,
                       errors |-> Load(ufields, data, partial).errors]
        /\ UNCHANGED <<ufields, obj, notUpdate>>

UpdateNext == DoUpdate \/ DoUpdateBadArgs \/ DoFromJson \/ DoValidate

\* The calls that went through update with a mapping.
ThroughUpdate == outcome.op \in {"update", "from_json"} /\ outcome.status = "returned"

\* The keys of the mapping that name a declared field that loads (it is not
\* dump-only) and whose value passes the field's checks and conversion.
LoadedKeys ==
    {k \in DOMAIN payload \cap DOMAIN ufields :
        /\ ufields[k].dump_only # PyTrue
        /\ Deserialize(ufields[k], payload[k]).tag = "value"}

\* C4: update with a mapping returns without raising, whatever subset of
\* the declared fields the mapping holds; it assigns exactly the keys that
\* loaded as declared loadable fields, each to its deserialized value,
\* leaves every other attribute as it was (an absent field gets no default)
\* and returns exactly the keys it did not assign.
C4_PartialUpdate ==
    /\ outcome.op \in {"update", "from_json"} => outcome.status = "returned"
    /\ ThroughUpdate =>
          /\ \A k \in LoadedKeys : obj[k] = Deserialize(ufields[k], payload[k]).value
          /\ \A k \in AttributeNames \ LoadedKeys : obj[k] = before[k]
          /\ DOMAIN obj = AttributeNames
    /\ outcome.op = "update" /\ outcome.status = "returned" =>
          /\ DOMAIN outcome.extra = DOMAIN payload \ LoadedKeys
          /\ \A k \in DOMAIN outcome.extra : outcome.extra[k] = payload[k]

\* update({'age': '7', 'nickname': 'x'}) on a model whose `name` is required
\* and whose `age` has a default: age becomes the int 7, name and id stay,
\* nickname comes back.
C4_Witness ==
    /\ outcome.op = "update" /\ outcome.status = "returned"
    /\ DOMAIN payload = {"age", "nickname"} /\ payload["age"] = "'7'"
    /\ ufields["name"].required = PyTrue
    /\ ufields["age"].missing = "5"
    /\ before["age"] = "4" /\ obj["age"] = "7"
    /\ obj["name"] = "'al'" /\ obj["id"] = "1"
    /\ DOMAIN outcome.extra = {"nickname"}

\* The fields whose value in the mapping fails the field's checks.
FailingFields ==
    {k \in DOMAIN payload \cap DOMAIN ufields :
        /\ ufields[k].dump_only # PyTrue
        /\ Deserialize(ufields[k], payload[k]).tag = "error"}

\* C5: when the mapping given to update or from_json holds a value that
\* fails its field's validation, the call fails with a validation error
\* that maps every failing field to its violated rules.
C5_AsStated ==
    outcome.op \in {"update", "from_json"} /\ FailingFields # {} =>
        /\ outcome.status = "ValidationError"
        /\ DOMAIN outcome.errors = FailingFields

\* What the code does with failing values: update returns them among the
\* extra keys, assigns nothing for them, and reports no error.
C5_SilentlyReturned ==
    outcome.op = "update" /\ outcome.status = "returned" =>
        /\ FailingFields \subseteq DOMAIN outcome.extra
        /\ \A k \in FailingFields : obj[k] = before[k]
        /\ outcome.errors = EmptyDict

\* validate, which update does not call, does collect every failing field.
C5_ValidateCollects ==
    outcome.op \in {"validate", "validate partial"} =>
        FailingFields \subseteq DOMAIN outcome.errors

----------------------------------------------------------------------------
(* JSON schema: json_schema, the patched _from_nested_schema, fix_refs     *)

\* Three models that refer to each other, one of them to itself.
JsonModels == {"User", "Post", "Comment"}

Rel(target, uselist) ==
    [Attribute("relationship", EmptyDict) EXCEPT !.target = target, !.uselist = uselist]
Col(pytype) == [Attribute("column", EmptyDict) EXCEPT !.pytype = pytype]

JsonBody(model) ==
    CASE model = "User" ->
           [n \in {"name", "posts", "friend"} |->
               CASE n = "posts" -> Rel("Post", TRUE)
                 [] n = "friend" -> Rel("User", FALSE)
                 [] OTHER -> Col("str")]
      [] model = "Post" ->
           [n \in {"title", "author", "comments"} |->
               CASE n = "author" -> Rel("User", FALSE)
                 [] n = "comments" -> Rel("Comment", TRUE)
                 [] OTHER -> Col("str")]
      [] OTHER ->
           [n \in {"body", "post"} |->
               CASE n = "post" -> Rel("Post", FALSE)
                 [] OTHER -> Col("str")]

\* The _declared_fields of the schema JsonMetaMixin builds for the model.
JsonFieldsOf(model) == OwnFields(JsonBody(model), NoArgs)

\* sorted(obj.fields.items()): the field names in alphabetical order.
JsonOrder(model) ==
    CASE model = "User" -> <<"friend", "name", "posts">>
      [] model = "Post" -> <<"author", "comments", "title">>
      [] OTHER -> <<"body", "post">>

\* A `$ref` string, split at '#' and then at '/': the document part (empty,
\* or uri_prefix and class name) and the path inside the document.
NoRef == [doc |-> <<>>, path |-> <<>>]
LocalRef(name) == [doc |-> <<>>, path |-> <<"definitions", name>>]
ExternalRef(prefix, name) == [doc |-> <<prefix, name>>, path |-> <<"definitions", name>>]

\* value.split('/')[-1]
RefName(ref) == ref.path[Len(ref.path)]

\* The JSON schema of one field: its `$ref`, if it has one, held directly or
\* under `items` when the field is many.
ValueProp == [ref |-> NoRef, many |-> FALSE]
NoProps == [n \in {} |-> ValueProp]
NoDefs == [n \in {} |-> [properties |-> NoProps]]

\* mmjs.JSONSchema(nested=True): the context of the JSONSchema that dumps a
\* followed relationship's schema is empty.
WrappedNestedContext == EmptyRequest

RECURSIVE from_nested_schema(_, _, _, _, _)
RECURSIVE PropertiesLoop(_, _, _, _, _, _, _)
RECURSIVE JsonDump(_, _, _, _)

\* JSONSchema.get_properties: the loop over the sorted fields of the schema
\* instance, from the i-th name on.
PropertiesLoop(outer, i, fields, dumped, context, defs, props) ==
    IF i > Len(JsonOrder(outer)) THEN [defs |-> defs, props |-> props]
    ELSE LET n == JsonOrder(outer)[i] IN
         IF n \notin dumped
         THEN PropertiesLoop(outer, i + 1, fields, dumped, context, defs, props)
         ELSE IF fields[n].cls # "Nested"
         THEN PropertiesLoop(outer, i + 1, fields, dumped, context, defs,
                             Update(props, [k \in {n} |-> ValueProp]))
         ELSE LET r == from_nested_schema(outer, fields[n], n, context, defs)
              IN PropertiesLoop(outer, i + 1, fields, dumped, context, r.defs,
                                Update(props, [k \in {n} |-> r.prop]))

\* JSONSchema(context=...).dump(schema_cls(only=, exclude=)) before `wrap`:
\* the schema's own JSON schema and the _nested_schema_classes collected.
JsonDump(model, only, exclude, context) ==
    LET fields == JsonFieldsOf(model)
        r == PropertiesLoop(model, 1, fields, Dumped(fields, only, exclude),
                            context, NoDefs, NoProps)
    IN [data |-> [properties |-> r.props], nested_schema_classes |-> r.defs]

\* _from_nested_schema(self, obj, field): self.context is `context`,
\* self._nested_schema_classes is `defs`, obj's class name is `outer`.
from_nested_schema(outer, field, fname, context, defs) ==
    LET follow == GetList(context.follow)
        rel_class == field.related
        nested_params == ViewLoad(NoSchema, NestedContext(context, fname))
        followed == Contains(follow, fname) \/ fname \in Keys(context)
        name == field.related
        wrapped == JsonDump(name, nested_params.only, nested_params.exclude,
                            WrappedNestedContext)
        schema == IF followed THEN LocalRef(name) ELSE ExternalRef("", rel_class)
    IN [defs |-> IF followed /\ name \notin DOMAIN defs /\ name # outer
                 THEN Update(Update(defs, [k \in {name} |-> wrapped.data]),
                             wrapped.nested_schema_classes)
                 ELSE defs,
        prop |-> [ref |-> schema, many |-> field.many = PyTrue]]

\* JSONSchema.wrap: the root's own schema joins the definitions, and the
\* document refers to it.
wrap(model, dumped) ==
    [ref |-> LocalRef(model),
     definitions |-> Update(dumped.nested_schema_classes, [k \in {model} |-> dumped.data])]

\* schema_uri(class_name) of fix_refs
AlwaysLocalMutant(definitions, root_name, uri_prefix, class_name) == LocalRef(class_name)
schema_uri(definitions, root_name, uri_prefix, class_name) ==
    IF class_name \in definitions \/ class_name = root_name
    THEN LocalRef(class_name)
    ELSE ExternalRef(uri_prefix, class_name)

\* fix_refs(root_schema, uri_prefix): every `$ref` under `definitions`, at
\* any depth, is rewritten from its last path segment.
fix_refs(root_schema, uri_prefix) ==
    LET root_name == RefName(root_schema.ref)
        definitions == DOMAIN root_schema.definitions
        fix(prop) == IF prop.ref = NoRef THEN prop
                     ELSE [prop EXCEPT !.ref = schema_uri(definitions, root_name,
                                                          uri_prefix, RefName(prop.ref))]
    IN [root_schema EXCEPT !.definitions =
           [n \in definitions |->
               [properties |->
                   [f \in DOMAIN root_schema.definitions[n].properties |->
                       fix(root_schema.definitions[n].properties[f])]]]]

\* json_schema with the params {only, exclude, context}
json_schema(model, params) ==
    fix_refs(wrap(model, JsonDump(model, params.only, params.exclude, params.context)), "")

\* The requests: lists of one name, nested entries one level deep.
JsonRelNames == {"posts", "friend", "author", "comments", "post"}
JsonOne(S) == {Absent} \cup {Given(<<n>>) : n \in S}

JsonNested ==
    {[only |-> Absent, exclude |-> e, follow |-> f, extra |-> NoExtra] :
        e \in JsonOne({"title"}), f \in JsonOne({"comments", "author", "posts"})}

JsonContexts ==
    {[only |-> Absent, exclude |-> Absent, follow |-> f, extra |-> x] :
        f \in {Given(<<>>)} \cup {Given(<<n>>) : n \in JsonRelNames}
               \cup {Given(<<"posts", "friend">>), Given(<<"author", "comments">>)},
        x \in {NoExtra} \cup {[k \in {r} |-> q] : r \in {"posts", "author", "post"},
                                                    q \in JsonNested}}

JsonKwargs ==
    {[only |-> o, exclude |-> e, follow |-> IF c.follow = Given(<<>>) THEN fa ELSE c.follow,
      extra |-> c.extra] :
        o \in JsonOne({"posts", "author"}), e \in JsonOne({"friend"}),
        c \in JsonContexts, fa \in {Absent, Given(<<>>)}}

\* A caller's own context may lack the key _follow.
JsonPositional ==
    {[only |-> o, exclude |-> GetList(e),
      context |-> IF c.follow = Given(<<>>) THEN [c EXCEPT !.follow = fa] ELSE c] :
        o \in JsonOne({"posts", "author"}), e \in JsonOne({"friend"}),
        c \in JsonContexts, fa \in {Absent, Given(<<>>)}}

\* `only` names fields the schema declares.
Declares(model, only) == ToSet(GetList(only)) \subseteq DOMAIN JsonFieldsOf(model)

NoDocument == [ref |-> NoRef, definitions |-> NoDefs]
NoParams == [only |-> Absent, exclude |-> <<>>, context |-> EmptyRequest]

JsonIdle ==
    /\ jroot = None
    /\ jparams = NoParams
    /\ jdoc = NoDocument
    /\ juri = ""
    /\ jprevious = [doc |-> NoDocument, uri |-> ""]
    /\ jstage = "nothing"

\* Model.json_schema(**kwargs). The call reads nothing that an earlier call
\* left behind, so one call per behaviour covers them all.
JsonSchemaKeyword ==
    \E model \in JsonModels, kwargs \in JsonKwargs :
        /\ jstage = "nothing"
        /\ Declares(model, kwargs.only)
        /\ jroot' = model
        /\ jparams' = [only |-> ViewLoad(NoSchema, kwargs).only,
                       exclude |-> ViewLoad(NoSchema, kwargs).exclude,
                       context |-> ViewLoad(NoSchema, kwargs).context]
        /\ jdoc' = json_schema(model, jparams')
        /\ juri' = ""
        /\ jprevious' = [doc |-> NoDocument, uri |-> ""]
        /\ jstage' = "returned"
        /\ UNCHANGED notJson

\* Model.json_schema(params) with a single dict {only, exclude, context}
JsonSchemaPositional ==
    \E model \in JsonModels, params \in JsonPositional :
        /\ jstage = "nothing"
        /\ Declares(model, params.only)
        /\ jroot' = model
        /\ jparams' = params
        /\ jdoc' = json_schema(model, params)
        /\ juri' = ""
        /\ jprevious' = [doc |-> NoDocument, uri |-> ""]
        /\ jstage' = "returned"
        /\ UNCHANGED notJson

\* fix_refs(document, uri_prefix) on a document json_schema returned
FixRefsAgain ==
    \E prefix \in {"", "api/"} :
        /\ jstage # "nothing"
        /\ jprevious' = [doc |-> jdoc, uri |-> juri]
        /\ jdoc' = fix_refs(jdoc, prefix)
        /\ juri' = prefix
        /\ jstage' = "fixed again"
        /\ UNCHANGED <<jroot, jparams, notJson>>

JsonNext == JsonSchemaKeyword \/ JsonSchemaPositional \/ FixRefsAgain

\* The relationship fields of a model that a schema instance with the given
\* only / exclude holds.
HeldRelationships(model, only, exclude) ==
    {f \in Dumped(JsonFieldsOf(model), only, exclude) : JsonFieldsOf(model)[f].cls = "Nested"}

\* A view spec follows a field: it names it in _follow or as a context key.
Follows(spec, f) == Contains(GetList(spec.follow), f) \/ f \in DOMAIN spec.extra

Target(model, f) == JsonFieldsOf(model)[f].related

\* The relationships followed at the top level, and, for one of them, the
\* relationships of its target followed by its nested context entry.
FollowedAtTop ==
    {f \in HeldRelationships(jroot, jparams.only, jparams.exclude) :
        Follows(jparams.context, f)}
FollowedBelow(f) ==
    LET entry_ == NestedContext(jparams.context, f) IN
    {g \in HeldRelationships(Target(jroot, f), entry_.only, GetList(entry_.exclude)) :
        Follows(entry_, g)}

\* The models followed anywhere in the view spec.
FollowedTargets ==
    {Target(jroot, f) : f \in FollowedAtTop}
    \cup UNION {{Target(Target(jroot, f), g) : g \in FollowedBelow(f)} : f \in FollowedAtTop}

PointOfUse(model, f) == jdoc.definitions[model].properties[f].ref

\* C6: in the document json_schema returns, every relationship followed at
\* any level of the view spec has its target in `definitions` and a local
\* reference at the point of use; a relationship that is not followed has an
\* external reference, and its target has no definitions entry when it is
\* followed nowhere.
C6_AsStated ==
    jstage = "returned" =>
        /\ \A f \in FollowedAtTop :
              /\ Target(jroot, f) \in DOMAIN jdoc.definitions
              /\ PointOfUse(jroot, f) = LocalRef(Target(jroot, f))
        /\ \A f \in FollowedAtTop : \A g \in FollowedBelow(f) :
              g \in DOMAIN jdoc.definitions[Target(jroot, f)].properties =>
                  /\ Target(Target(jroot, f), g) \in DOMAIN jdoc.definitions
                  /\ PointOfUse(Target(jroot, f), g) = LocalRef(Target(Target(jroot, f), g))
        /\ \A f \in HeldRelationships(jroot, jparams.only, jparams.exclude) \ FollowedAtTop :
              /\ PointOfUse(jroot, f) = ExternalRef("", Target(jroot, f))
              /\ Target(jroot, f) \notin FollowedTargets \cup {jroot}
                    => Target(jroot, f) \notin DOMAIN jdoc.definitions

\* What the code does: a relationship followed at the top level is defined
\* and referred to locally, and nothing below the top level is followed: the
\* definitions are the root and the targets followed at the top.
C6_TopLevelOnly ==
    jstage = "returned" =>
        /\ \A f \in FollowedAtTop :
              /\ Target(jroot, f) \in DOMAIN jdoc.definitions
              /\ PointOfUse(jroot, f) = LocalRef(Target(jroot, f))
        /\ DOMAIN jdoc.definitions = {jroot} \cup {Target(jroot, f) : f \in FollowedAtTop}

\* C6 counterexample state: posts is followed and its entry follows comments,
\* yet Comment has no definition and Post refers to it externally.
C6_NestedFollowLost ==
    /\ jstage = "returned" /\ jroot = "User"
    /\ "posts" \in FollowedAtTop /\ "comments" \in FollowedBelow("posts")
    /\ "Comment" \notin DOMAIN jdoc.definitions
    /\ PointOfUse("Post", "comments") = ExternalRef("", "Comment")

\* Every `$ref` under `definitions`: the definition and the field holding it.
RefsInDefinitions ==
    {p \in UNION {{<<n, f>> : f \in DOMAIN jdoc.definitions[n].properties} :
                     n \in DOMAIN jdoc.definitions} :
        jdoc.definitions[p[1]].properties[p[2]].ref # NoRef}

\* C7: after fix_refs, each `$ref` under `definitions` names its field's
\* target, is local exactly when that name is a key of `definitions` or the
\* root's name and has the external form with the pass's prefix otherwise;
\* every local one resolves to a definitions entry; and a second pass with
\* the same prefix changes nothing.
C7_RefsRewritten ==
    jstage # "nothing" =>
        /\ \A p \in RefsInDefinitions :
              LET ref == PointOfUse(p[1], p[2])
                  class_name == Target(p[1], p[2])
              IN /\ RefName(ref) = class_name
                 /\ IF class_name \in DOMAIN jdoc.definitions \/ class_name = jroot
                    THEN ref = LocalRef(class_name) /\ class_name \in DOMAIN jdoc.definitions
                    ELSE ref = ExternalRef(juri, class_name)
        /\ jdoc.ref = LocalRef(jroot) /\ jroot \in DOMAIN jdoc.definitions
        /\ jstage = "fixed again" /\ juri = jprevious.uri => jdoc = jprevious.doc

\* json_schema of Post following author: User.posts, dumped with an external
\* reference, is local after the pass because Post is the root; Post.comments
\* stays external; and the pass has been applied a second time.
C7_Witness ==
    /\ jstage = "fixed again" /\ juri = "" /\ jprevious.uri = ""
    /\ jroot = "Post" /\ DOMAIN jdoc.definitions = {"Post", "User"}
    /\ PointOfUse("User", "posts") = LocalRef("Post")
    /\ PointOfUse("User", "friend") = LocalRef("User")
    /\ PointOfUse("Post", "comments") = ExternalRef("", "Comment")
    /\ PointOfUse("Post", "author") = LocalRef("User")

----------------------------------------------------------------------------
(* Parsing: ViewSchema().load of a mapping whose keys hold lists or strings *)

\* The value a caller gives for _only, _exclude or _follow: nothing, a list
\* of names, or a single name as a string.
RawAbsent == [kind |-> "absent", items |-> <<>>]
RawList(names) == [kind |-> "list", items |-> names]
RawString(text) == [kind |-> "str", items |-> <<text>>]

\* mm.fields.List(mm.fields.String()) on load: a list of strings is taken
\* as it is, anything that is no collection, a string included, fails with
\* 'Not a valid list.'.
IsValidList(val) == val.kind = "list"

\* The keys of the mapping whose field fails.
LoadErrors(raw) ==
    {k \in {"_only", "_exclude", "_follow"} :
        LET val == CASE k = "_only" -> raw.only
                     [] k = "_exclude" -> raw.exclude
                     [] OTHER -> raw.follow
        IN val.kind # "absent" /\ ~IsValidList(val)}

\* The value of one field in the loaded data: the list given, the field's
\* `missing` when the key is absent (None for _only, list() for the others),
\* nothing when the field failed.
LoadedList(val, missing) ==
    IF val.kind = "absent" THEN missing
    ELSE IF IsValidList(val) THEN Given(val.items)
    ELSE Absent

\* The mapping as the post_load hook sees it.
AsRequest(raw) ==
    [only |-> IF raw.only.kind = "absent" THEN Absent ELSE Given(raw.only.items),
     exclude |-> IF raw.exclude.kind = "absent" THEN Absent ELSE Given(raw.exclude.items),
     follow |-> IF raw.follow.kind = "absent" THEN Absent ELSE Given(raw.follow.items),
     extra |-> raw.extra]

NotParsed ==
    [done |-> FALSE, raised |-> FALSE, normalized |-> FALSE, errors |-> {},
     only |-> Absent, exclude |-> <<>>, context |-> EmptyRequest,
     partial |-> [only |-> Absent, exclude |-> Absent, follow |-> Absent]]

\* ViewSchema().load(raw): the schema is not strict, so nothing is raised;
\* the post_load hook `final`, which builds {only, exclude, context}, runs
\* only when no field failed, and otherwise .data is the fields loaded.
view_load(raw) ==
    IF LoadErrors(raw) = {}
    THEN [NotParsed EXCEPT !.done = TRUE, !.normalized = TRUE,
                           !.only = ViewLoad(NoSchema, AsRequest(raw)).only,
                           !.exclude = ViewLoad(NoSchema, AsRequest(raw)).exclude,
                           !.context = ViewLoad(NoSchema, AsRequest(raw)).context]
    ELSE [NotParsed EXCEPT !.done = TRUE, !.errors = LoadErrors(raw),
                           !.partial = [only |-> LoadedList(raw.only, Absent),
                                        exclude |-> LoadedList(raw.exclude, Given(<<>>)),
                                        follow |-> LoadedList(raw.follow, Given(<<>>))]]

RawValues ==
    {RawAbsent} \cup {RawList(names) : names \in Lists} \cup {RawString(n) : n \in FieldNames}

RawRequests ==
    {[only |-> o, exclude |-> e, follow |-> f, extra |-> [n \in K |-> EmptyRequest]] :
        o \in RawValues, e \in RawValues, f \in RawValues, K \in {{}, {"posts"}}}

NoRawRequest == [only |-> RawAbsent, exclude |-> RawAbsent, follow |-> RawAbsent,
                 extra |-> NoExtra]

ParseIdle ==
    /\ asked = NoRawRequest
    /\ parsed = NotParsed

ParseInit ==
    /\ asked \in RawRequests
    /\ parsed = NotParsed

\* ViewSchema().load(kwargs), as json_schema and _from_nested_schema call it
DoParse ==
    /\ ~parsed.done
    /\ parsed' = view_load(asked)
    /\ UNCHANGED <<asked, notParse>>

ParseNext == DoParse

\* What C12 expects of one key: empty when absent, the one-element list for
\* a string, the list itself for a list.
Normalized(val) == val.items

\* C12: parsing without a target schema never raises and normalizes: an
\* absent _only is unset and an absent _exclude or _follow is empty, a single
\* string becomes the one-element list, a list is kept as it is, and _follow
\* and every extra key are in the context.
C12_AsStated ==
    parsed.done =>
        /\ ~parsed.raised
        /\ parsed.normalized
        /\ parsed.only = IF asked.only.kind = "absent" THEN Absent
                         ELSE Given(Normalized(asked.only))
        /\ parsed.exclude = Normalized(asked.exclude)
        /\ parsed.context.follow = Given(Normalized(asked.follow))
        /\ parsed.context.extra = asked.extra

\* What the code keeps of C12: nothing is raised, and a mapping whose keys
\* hold lists is normalized as stated; a mapping with a string under one of
\* the three keys is not normalized, and the load reports that key.
C12_ListsOnly ==
    parsed.done =>
        /\ ~parsed.raised
        /\ parsed.normalized <=>
              \A val \in {asked.only, asked.exclude, asked.follow} : val.kind # "str"
        /\ parsed.normalized =>
              /\ parsed.only = IF asked.only.kind = "absent" THEN Absent
                               ELSE Given(asked.only.items)
              /\ parsed.exclude = asked.exclude.items
              /\ parsed.context.follow = Given(asked.follow.items)
              /\ parsed.context.extra = asked.extra
              /\ parsed.context.only = Absent /\ parsed.context.exclude = Absent
        /\ ~parsed.normalized =>
              /\ parsed.errors # {}
              /\ ("_only" \in parsed.errors) = (asked.only.kind = "str")
              /\ ("_exclude" \in parsed.errors) = (asked.exclude.kind = "str")
              /\ ("_follow" \in parsed.errors) = (asked.follow.kind = "str")

\* ViewSchema().load({'_only': 'title'}) has returned: no only / exclude /
\* context, an error for _only, the defaults of the other two fields.
C12_StringRejected ==
    /\ parsed.done /\ ~parsed.normalized
    /\ asked.only = RawString("title")
    /\ asked.exclude = RawAbsent /\ asked.follow = RawAbsent
    /\ parsed.errors = {"_only"}
    /\ parsed.partial = [only |-> Absent, exclude |-> Given(<<>>), follow |-> Given(<<>>)]

----------------------------------------------------------------------------
(* Specifications                                                          *)

InitView == ViewInit /\ DumpIdle /\ FieldIdle /\ BuildIdle /\ UpdateIdle /\ JsonIdle /\ ParseIdle
SpecView == InitView /\ [][ViewNext]_vars

InitDump == DumpInit /\ ViewIdle /\ FieldIdle /\ BuildIdle /\ UpdateIdle /\ JsonIdle /\ ParseIdle
SpecDump == InitDump /\ [][DumpNext]_vars

InitField == FieldIdle /\ ViewIdle /\ DumpIdle /\ BuildIdle /\ UpdateIdle /\ JsonIdle /\ ParseIdle
SpecField == InitField /\ [][FieldNext]_vars

InitBuild == BuildInit /\ ViewIdle /\ DumpIdle /\ FieldIdle /\ UpdateIdle /\ JsonIdle /\ ParseIdle
SpecBuild == InitBuild /\ [][BuildNext]_vars

InitUpdate == UpdateInit /\ ViewIdle /\ DumpIdle /\ FieldIdle /\ BuildIdle /\ JsonIdle /\ ParseIdle
SpecUpdate == InitUpdate /\ [][UpdateNext]_vars

InitJson == JsonIdle /\ ViewIdle /\ DumpIdle /\ FieldIdle /\ BuildIdle /\ UpdateIdle /\ ParseIdle
SpecJson == InitJson /\ [][JsonNext]_vars

InitParse == ParseInit /\ ViewIdle /\ DumpIdle /\ FieldIdle /\ BuildIdle /\ UpdateIdle
             /\ JsonIdle
SpecParse == InitParse /\ [][ParseNext]_vars

====
